---- MODULE Spec2Model ----
(***************************************************************************)
(* Model of lheprocessor.LHEProcessor (src/lheprocessor/lheprocessor.py):  *)
(* the sample and observable registries and the multi-sample merge of      *)
(* analyse_lhe_samples.                                                    *)
(*                                                                         *)
(* Data representation                                                     *)
(*   - an OrderedDict is a sequence of <<key, value>> pairs, in insertion  *)
(*     order, with at most one pair per key;                               *)
(*   - a 1-D numpy array (an observable column) is a sequence of numbers;  *)
(*   - the 2-D weights array is a sequence of rows, shape[0] = Len(w),     *)
(*     one row per weight variation, each row holding one number per       *)
(*     event (np.hstack joins 2-D arrays along the second axis);           *)
(*   - an attribute that is None or a value is a sequence of length 0 or 1.*)
(***************************************************************************)
EXTENDS Integers, Sequences, FiniteSets

VARIABLES
    lhe_files,              \* what extract_observables_from_lhe_file returns for each filename
    lhe_sample_filenames,   \* self.lhe_sample_filenames
    observables,            \* self.observables
    observables_required,   \* self.observables_required
    observations,           \* self.observations (None or an OrderedDict of columns)
    weights,                \* self.weights (None or a 2-D array)
    raised,                 \* what the last analyse_lhe_samples() call raised ("none": it returned)
    runs,                   \* number of analyse_lhe_samples() calls made
    calls,                  \* filenames handed to the extractor by the last analyse_lhe_samples() call
    folds,                  \* the samples the last call merged, with the event counts before and after
    added,                  \* filenames passed to add_lhe_sample, in call order
    written                 \* per name, the arguments of the latest add_observable call

vars == <<lhe_files, lhe_sample_filenames, observables, observables_required,
          observations, weights, raised, runs, calls, folds, added, written>>

----------------------------------------------------------------------------
(* Bounds of the model *)

MaxSamples == 2
MaxEvents == 2
MaxRuns == 2

Files == {"A.lhe", "B.lhe"}
FileNo(f) == IF f = "A.lhe" THEN 1 ELSE 2

Names == {"a", "b"}
\* the add_observable calls tried, <<name, definition, required>>: two first
\* registrations, and with re-registrations under another definition and flag
ObservableCalls == {<<"a", "p[0].e", TRUE>>, <<"b", "p[1].pt", FALSE>>}
ObservableRecalls == {<<"a", "p[1].pt", FALSE>>, <<"b", "p[0].e", TRUE>>}

KeyNo(k) == IF k = "a" THEN 1 ELSE IF k = "b" THEN 2 ELSE 3
KeyLists == {<<"a", "b">>, <<"a", "c">>, <<"a">>}
WeightCounts == {1, 2}
\* retained events per file: none (every event dropped), one, or the most
EventCounts == {0, 1, MaxEvents}

----------------------------------------------------------------------------
(* None / value *)

None == <<>>
Some(x) == <<x>>
IsNone(o) == o = <<>>
Val(o) == o[1]

----------------------------------------------------------------------------
(* OrderedDict *)

ODKeys(od) == [i \in 1 .. Len(od) |-> od[i][1]]
ODKeySet(od) == {od[i][1] : i \in 1 .. Len(od)}
ODHas(od, k) == \E i \in 1 .. Len(od) : od[i][1] = k
ODGet(od, k) == od[CHOOSE i \in 1 .. Len(od) : od[i][1] = k][2]

\* od[k] = v on an entry that exists keeps the first binding
ODSetKeepFirst(od, k, v) ==
    IF ODHas(od, k) THEN od ELSE Append(od, <<k, v>>)

\* od[k] = v: replaces the value in place, or appends a new pair
ODSet(od, k, v) ==
    IF ODHas(od, k)
    THEN [i \in 1 .. Len(od) |-> IF od[i][1] = k THEN <<k, v>> ELSE od[i]]
    ELSE Append(od, <<k, v>>)

----------------------------------------------------------------------------
(* numpy *)

shape0(w) == Len(w)

\* np.hstack of two 1-D arrays, the second one first
hstack1d_swapped(a, b) == b \o a

\* np.hstack of two 1-D arrays
hstack1d(a, b) == a \o b

\* np.hstack of two 2-D arrays that loses the second one
hstack2d_first(A, B) == A

\* np.hstack of two 2-D arrays that appends the second one twice
hstack2d_twice(A, B) == [r \in 1 .. Len(A) |-> (A[r] \o B[r]) \o B[r]]

\* np.hstack of two 2-D arrays with equal shape[0]
hstack2d(A, B) == [r \in 1 .. Len(A) |-> A[r] \o B[r]]

----------------------------------------------------------------------------
(* The per-file result of the extractor                                    *)
(* extract_observables_from_lhe_file is imported from lheprocessor.tools,  *)
(* it returns (observations, weights) or raises. A table has one column    *)
(* per key and one weights row per weight variation, all as long as the    *)
(* number of retained events; cell values identify file, column and event. *)

ObsCell(f, k, i) == FileNo(f) * 100 + KeyNo(k) * 10 + i
WeightCell(f, w, i) == 1000 + FileNo(f) * 100 + w * 10 + i

Table(f, nw, ne, keys) ==
    [err |-> FALSE,
     observations |-> [j \in 1 .. Len(keys) |->
                          <<keys[j], [i \in 1 .. ne |-> ObsCell(f, keys[j], i)]>>],
     weights |-> [w \in 1 .. nw |-> [i \in 1 .. ne |-> WeightCell(f, w, i)]]]

Unreadable == [err |-> TRUE, observations |-> <<>>, weights |-> <<>>]

ResultsFor(f) ==
    {Unreadable} \cup
    {Table(f, nw, ne, keys) : nw \in WeightCounts, ne \in EventCounts, keys \in KeyLists}

extract_observables_from_lhe_file(filename, obs, obs_required) == lhe_files[filename]

\* number of events (second axis) of a weights array with at least one row
EventCount(w) == Len(w[1])

----------------------------------------------------------------------------
(* __init__ *)

Init ==
    /\ lhe_files \in {g \in [Files -> UNION {ResultsFor(f) : f \in Files}] :
                        \A f \in Files : g[f] \in ResultsFor(f)}
    /\ lhe_sample_filenames = <<>>
    /\ observables = <<>>
    /\ observables_required = <<>>
    /\ observations = None
    /\ weights = None
    /\ raised = "none"
    /\ runs = 0
    /\ calls = <<>>
    /\ folds = <<>>
    /\ added = <<>>
    /\ written = [n \in Names |-> None]

----------------------------------------------------------------------------
(* add_lhe_sample *)

\* an append that skips a filename already in the list
SampleAppendOnce(filenames, filename) ==
    IF \E i \in 1 .. Len(filenames) : filenames[i] = filename
    THEN filenames
    ELSE Append(filenames, filename)

\* self.lhe_sample_filenames.append(filename)
SampleAppend(filenames, filename) == Append(filenames, filename)

add_lhe_sample(filename) ==
    /\ Len(lhe_sample_filenames) < MaxSamples
    /\ lhe_sample_filenames' = SampleAppend(lhe_sample_filenames, filename)
    /\ added' = Append(added, filename)
    /\ UNCHANGED <<lhe_files, observables, observables_required, observations,
                   weights, raised, runs, calls, folds, written>>

----------------------------------------------------------------------------
(* add_observable *)

add_observable(name, definition, required) ==
    /\ observables' = ODSet(observables, name, definition)
    /\ observables_required' = ODSet(observables_required, name, required)
    /\ written' = [written EXCEPT ![name] = Some(<<definition, required>>)]
    /\ UNCHANGED <<lhe_files, lhe_sample_filenames, observations, weights,
                   raised, runs, calls, folds, added>>

----------------------------------------------------------------------------
(* analyse_lhe_samples *)

\* a merge test that takes every sample for the first one
nothing_merged_ever(obs, wts) == TRUE

\* self.observations is None and self.weights is None
nothing_merged(obs, wts) == IsNone(obs) /\ IsNone(wts)

\* for key in self.observations: assert key in this_observations; hstack.
\* Stops at the first key the new table lacks, with the earlier keys merged.
RECURSIVE merge_columns(_, _, _)
merge_columns(obs, this_observations, i) ==
    IF i > Len(obs) THEN [ok |-> TRUE, obs |-> obs]
    ELSE LET key == obs[i][1] IN
         IF ~ODHas(this_observations, key) THEN [ok |-> FALSE, obs |-> obs]
         ELSE merge_columns(
                  ODSet(obs, key, hstack1d(ODGet(obs, key), ODGet(this_observations, key))),
                  this_observations, i + 1)

\* one iteration of the loop over self.lhe_sample_filenames, on the running
\* state s = [observations, weights, raised, calls, folds]
fold_sample(s, lhe_file) ==
    LET this == extract_observables_from_lhe_file(lhe_file, observables, observables_required)
        called == [s EXCEPT !.calls = Append(s.calls, lhe_file)]
    IN  IF this.err THEN [called EXCEPT !.raised = "ExtractorError"]
        ELSE IF nothing_merged(s.observations, s.weights)
        THEN [called EXCEPT
                 !.observations = Some(this.observations),
                 !.weights = Some(this.weights),
                 !.folds = Append(s.folds, [file |-> lhe_file, first |-> TRUE, before |-> 0,
                                            after |-> EventCount(this.weights)])]
        ELSE IF shape0(Val(s.weights)) # shape0(this.weights)
        THEN [called EXCEPT !.raised = "ValueError:weights"]
        ELSE IF Len(Val(s.observations)) # Len(this.observations)
        THEN [called EXCEPT !.raised = "ValueError:observations"]
        ELSE LET new_weights == hstack2d(Val(s.weights), this.weights)
                 merged == merge_columns(Val(s.observations), this.observations, 1)
             IN  IF merged.ok
                 THEN [called EXCEPT
                          !.observations = Some(merged.obs),
                          !.weights = Some(new_weights),
                          !.folds = Append(s.folds,
                                           [file |-> lhe_file, first |-> FALSE,
                                            before |-> EventCount(Val(s.weights)),
                                            after |-> EventCount(new_weights)])]
                 ELSE [called EXCEPT
                          !.observations = Some(merged.obs),
                          !.weights = Some(new_weights),
                          !.raised = "AssertionError"]

\* for lhe_file in self.lhe_sample_filenames, left at the first exception
RECURSIVE analyse_loop(_, _, _)
analyse_loop(s, filenames, i) ==
    IF i > Len(filenames) \/ s.raised # "none" THEN s
    ELSE analyse_loop(fold_sample(s, filenames[i]), filenames, i + 1)

analyse_lhe_samples ==
    /\ runs < MaxRuns
    /\ LET start == [observations |-> observations, weights |-> weights,
                     raised |-> "none", calls |-> <<>>, folds |-> <<>>]
           end == analyse_loop(start, lhe_sample_filenames, 1)
       IN  /\ observations' = end.observations
           /\ weights' = end.weights
           /\ raised' = end.raised
           /\ calls' = end.calls
           /\ folds' = end.folds
    /\ runs' = runs + 1
    /\ UNCHANGED <<lhe_files, lhe_sample_filenames, observables, observables_required,
                   added, written>>

----------------------------------------------------------------------------

Next ==
    \/ \E filename \in Files : add_lhe_sample(filename)
    \/ \E c \in ObservableCalls : add_observable(c[1], c[2], c[3])
    \/ analyse_lhe_samples

Spec == Init /\ [][Next]_vars

\* the registries alone, with names registered first and then again
NextRegistry ==
    \/ \E filename \in Files : add_lhe_sample(filename)
    \/ \E c \in ObservableCalls : add_observable(c[1], c[2], c[3])
    \/ \E c \in ObservableRecalls :
           ODHas(observables, c[1]) /\ add_observable(c[1], c[2], c[3])

SpecRegistry == Init /\ [][NextRegistry]_vars

----------------------------------------------------------------------------
(* What the claims speak of *)

\* the retained events of the samples, <<file, index>>, in registration order
RECURSIVE RetainedEvents(_)
RetainedEvents(filenames) ==
    IF filenames = <<>> THEN <<>>
    ELSE LET f == Head(filenames)
         IN  [i \in 1 .. EventCount(lhe_files[f].weights) |-> <<f, i>>]
                 \o RetainedEvents(Tail(filenames))

\* the column of observable k and the weights rows that hold exactly the events ev
ColumnOf(ev, k) == [j \in 1 .. Len(ev) |-> ObsCell(ev[j][1], k, ev[j][2])]
WeightsOf(ev, nw) == [w \in 1 .. nw |-> [j \in 1 .. Len(ev) |-> WeightCell(ev[j][1], w, ev[j][2])]]

Returned == runs > 0 /\ raised = "none"
HasDataset == ~IsNone(observations) /\ ~IsNone(weights)
Rows == EventCount(Val(weights))
ColumnLengths == {Len(Val(observations)[p][2]) : p \in 1 .. Len(Val(observations))}

\* C1 (P1, shape invariant): after an analyse_lhe_samples() call that returned
\* without error, the merged weights array has as many events as every column
\* of the merged observations table has entries.
C1_ShapeInvariant ==
    (raised = "none" /\ ~IsNone(observations)) =>
        /\ ~IsNone(weights)
        /\ \A n \in ColumnLengths : n = Rows

C1_Witness ==
    /\ Returned /\ HasDataset
    /\ Len(folds) >= 2
    /\ Len(Val(observations)) = 2
    /\ Rows = 3

\* C2 (P2, append order): a successful analyse_lhe_samples() on a fresh processor
\* with samples s1..sn leaves weights and columns that hold row for row the
\* retained events of s1, then those of s2, ..., then those of sn.
C2_AppendOrder ==
    [][(runs' # runs /\ IsNone(observations) /\ IsNone(weights)
        /\ raised' = "none" /\ lhe_sample_filenames # <<>>) =>
          LET ev == RetainedEvents(lhe_sample_filenames)
              first == lhe_files[lhe_sample_filenames[1]]
          IN  /\ ~IsNone(observations') /\ ~IsNone(weights')
              /\ ODKeys(Val(observations')) = ODKeys(first.observations)
              /\ \A p \in 1 .. Len(Val(observations')) :
                    Val(observations')[p][2] = ColumnOf(ev, Val(observations')[p][1])
              /\ Val(weights') = WeightsOf(ev, shape0(first.weights))]_vars

C2_Witness ==
    /\ runs = 1 /\ raised = "none" /\ HasDataset
    /\ calls = <<"B.lhe", "A.lhe">>
    /\ Rows = 3
    /\ Val(weights)[1][1] = WeightCell("B.lhe", 1, 1)
    /\ Val(weights)[1][3] = WeightCell("A.lhe", 1, MaxEvents)
    /\ Len(Val(observations)) = 2
    /\ Val(observations)[2][1] = "b"
    /\ Val(observations)[2][2][1] = ObsCell("B.lhe", "b", 1)

\* C3 (P5, mismatch rejection) as claimed: when a later sample's weight-variation
\* count differs, the call raises and no merged dataset is left on the processor.
C3_NoDatasetAfterWeightMismatch ==
    raised = "ValueError:weights" => (IsNone(observations) /\ IsNone(weights))

\* C4 as claimed: a call with zero registered samples returns and yields an empty
\* dataset, zero rows, with every registered observable name a key of an empty column.
C4_EmptyDataset ==
    (Returned /\ calls = <<>> /\ lhe_sample_filenames = <<>>) =>
        /\ ~IsNone(observations) /\ ~IsNone(weights)
        /\ ODKeys(Val(observations)) = ODKeys(observables)
        /\ \A n \in ColumnLengths : n = 0

\* C5 as claimed: when a later sample's table lacks a key of the merged table the
\* call fails with nothing of that sample appended, so weights and columns still
\* have one common length.
C5_NoPartialAppend ==
    raised = "AssertionError" =>
        /\ HasDataset
        /\ \A n \in ColumnLengths : n = Rows

\* C6: add_lhe_sample keeps the filenames in call order, duplicates included, and
\* a call of analyse_lhe_samples() that returns has handed each registered
\* filename to the extractor once, in registration order, and merged each.
C6_OncePerSampleInOrder ==
    [][/\ lhe_sample_filenames' = added'
       /\ (runs' # runs /\ raised' = "none") =>
             /\ calls' = added'
             /\ Len(folds') = Len(calls')
             /\ \A i \in 1 .. Len(folds') : folds'[i].file = added'[i]]_vars

C6_Witness ==
    /\ Returned
    /\ added = <<"A.lhe", "A.lhe">>
    /\ calls = <<"A.lhe", "A.lhe">>
    /\ Len(folds) = 2
    /\ HasDataset /\ Rows = 2 * MaxEvents

\* C7: the two registries hold the same keys in the same order, each name once,
\* and each name maps to the definition and the required flag of the latest
\* add_observable call for it; a name never registered is in neither.
C7_LastWriteWins ==
    /\ ODKeys(observables) = ODKeys(observables_required)
    /\ ODKeySet(observables) \subseteq Names
    /\ \A n \in Names :
          IF IsNone(written[n])
          THEN ~ODHas(observables, n) /\ ~ODHas(observables_required, n)
          ELSE /\ Cardinality({i \in 1 .. Len(observables) : observables[i][1] = n}) = 1
               /\ Cardinality({i \in 1 .. Len(observables_required) :
                                  observables_required[i][1] = n}) = 1
               /\ ODGet(observables, n) = Val(written[n])[1]
               /\ ODGet(observables_required, n) = Val(written[n])[2]

\* "a" registered, then "b", then "a" again under another definition and flag
C7_Witness ==
    /\ observables = <<<<"a", "p[1].pt">>, <<"b", "p[1].pt">>>>
    /\ observables_required = <<<<"a", FALSE>>, <<"b", FALSE>>>>

\* the retained-event count of the sample merged by fold i of the last call
Retained(i) == EventCount(lhe_files[folds[i].file].weights)
LaterFolds == {i \in 1 .. Len(folds) : ~folds[i].first}

\* C8 as claimed: each successful fold of a second or later sample strictly
\* increases the merged row count, by exactly the sample's retained-event count.
C8_StrictIncrease ==
    \A i \in LaterFolds :
        /\ folds[i].after > folds[i].before
        /\ folds[i].after = folds[i].before + Retained(i)

\* C8 amended: each successful fold of a second or later sample increases the
\* merged row count by exactly the sample's retained-event count, strictly when
\* the sample retained an event, and not at all when all its events were dropped.
C8_IncreaseByRetained ==
    \A i \in LaterFolds :
        /\ folds[i].after = folds[i].before + Retained(i)
        /\ (folds[i].after > folds[i].before) <=> (Retained(i) > 0)
        /\ (i = Len(folds) /\ raised = "none") =>
              (HasDataset /\ Rows = folds[i].after)

C8_Witness ==
    /\ Returned /\ HasDataset
    /\ Len(folds) = 2
    /\ 2 \in LaterFolds
    /\ folds[2].before = 1
    /\ folds[2].after = 1 + MaxEvents

\* C9 as claimed: an error while processing sample i ends the call at once, no
\* later sample is extracted, and no dataset built from the earlier samples is
\* left on the processor.
C9_AbortLeavesNothing ==
    raised # "none" =>
        /\ Len(calls) <= Len(added)
        /\ calls = SubSeq(added, 1, Len(calls))
        /\ Len(folds) < Len(calls)
        /\ IsNone(observations) /\ IsNone(weights)

\* C10: a call of analyse_lhe_samples() that returns on a processor that holds
\* a merged dataset keeps its rows and appends the retained events of every
\* registered sample after them, without touching the sample list; add_lhe_sample
\* and add_observable leave observations and weights as they are.
C10_CumulativeRuns ==
    [][/\ (runs' # runs /\ HasDataset /\ raised' = "none") =>
             LET ev == RetainedEvents(lhe_sample_filenames)
                 old == Val(observations)
                 new == Val(observations')
             IN  /\ lhe_sample_filenames' = lhe_sample_filenames
                 /\ ODKeys(new) = ODKeys(old)
                 /\ \A p \in 1 .. Len(old) :
                       new[p][2] = old[p][2] \o ColumnOf(ev, old[p][1])
                 /\ Val(weights') =
                       [w \in 1 .. shape0(Val(weights)) |->
                           Val(weights)[w] \o WeightsOf(ev, shape0(Val(weights)))[w]]
                 /\ EventCount(Val(weights')) = Rows + Len(ev)
       /\ (runs' = runs) => (observations' = observations /\ weights' = weights)]_vars

\* two calls over the samples A, B: 2 * (MaxEvents + 1) rows
C10_Witness ==
    /\ runs = 2 /\ raised = "none" /\ HasDataset
    /\ calls = <<"A.lhe", "B.lhe">>
    /\ Len(folds) = 2 /\ ~folds[1].first
    /\ folds[1].before = MaxEvents + 1
    /\ Rows = 2 * (MaxEvents + 1)

====
